---- MODULE Spec2Model ----
(***************************************************************************)
(* NERPredictor (fancy_nlp/predictors/ner_predictor.py): probabilities,    *)
(* tag sequences and entity records for one text or a batch of texts.      *)
(*                                                                         *)
(* Python values are represented as follows.                               *)
(*   text item   [kind, chars]: kind is the Python type of the item        *)
(*               ("str", "list", "tuple", "int"), chars its characters     *)
(*   matrix      a sequence of rows, a row a sequence of NumClasses        *)
(*               integers (probabilities in percent)                       *)
(*   float       a fraction [num, den] (den = 0 is numpy's nan)            *)
(*   call result [err, val, lengths]: err is the exception raised or       *)
(*               "none", val the returned value, lengths the lengths       *)
(*               argument the call handed to label_decode                  *)
(***************************************************************************)
EXTENDS Integers, Sequences, FiniteSets

VARIABLES
    texts,      \* the batch of text items the caller holds
    ner_model,  \* the matrix the model's predict returns for an item
    tag_in,     \* the tag sequence of a direct call of entities()
    op,         \* "call" before the call, then the entry point that ran
    arg,        \* the index in texts of a single-text call's argument
    err,        \* the exception the call raised, or "none"
    lengths,    \* the lengths the call handed to label_decode
    result      \* the value the call returned

vars == <<texts, ner_model, tag_in, op, arg, err, lengths, result>>

\* Bounds of the model.
MaxLen == 3
MaxRows == 2
MaxBatch == 2
MaxTagLen == 5

Min(a, b) == IF a < b THEN a ELSE b

Range(s) == {s[i] : i \in 1..Len(s)}

\* Sequences over S of length at most n.
SeqsUpTo(S, n) == UNION {[1..k -> S] : k \in 0..n}

----------------------------------------------------------------------------
\* Collaborators: the label vocabulary, the preprocessor and the model.

\* id2label of the preprocessor: class index -> label string.
Vocab == <<"O", "B-LOC", "I-LOC", "E-LOC", "S-LOC", "B-PER", "I-PER">>

NumClasses == Len(Vocab)

\* The row a model emits when it favours class c.
Row(c) == [k \in 1..NumClasses |-> IF k = c THEN 40 ELSE 10]

\* The characters of the texts: position i holds Char(i).
Sample == <<"a", "b", "c", "d", "e">>

Char(i) == Sample[((i - 1) % Len(Sample)) + 1]

Chars(n) == [i \in 1..n |-> Char(i)]

\* np.argmax of one row: the first index holding the maximum.
Argmax(row) ==
    CHOOSE k \in 1..Len(row) :
        /\ \A j \in 1..Len(row) : row[j] <= row[k]
        /\ \A j \in 1..(k - 1) : row[j] < row[k]

\* preprocessor.prepare_input(list of char sequences) -> (features, _):
\* its contract covers character lists, any other item is rejected; the
\* features are opaque to the predictor, here the character sequences.
prepare_input(items) ==
    IF \E i \in 1..Len(items) : items[i].kind # "list"
    THEN [err |-> "TypeError", val |-> <<>>]
    ELSE [err |-> "none", val |-> [i \in 1..Len(items) |-> items[i].chars]]

\* ner_model.predict(features): deterministic, one matrix per item, each
\* padded or truncated to the model's sequence length.
predict(model, features) == [i \in 1..Len(features) |-> model]

\* preprocessor.label_decode(pred_probs, lengths): item i decodes to
\* exactly lengths[i] labels, the argmax label of each of its first rows.
label_decode(pred_probs, lens) ==
    IF \E i \in 1..Len(lens) : lens[i] > Len(pred_probs[i])
    THEN [err |-> "LengthExceedsRows", val |-> <<>>]
    ELSE [err |-> "none",
          val |-> [i \in 1..Len(lens) |->
                     [p \in 1..lens[i] |-> Vocab[Argmax(pred_probs[i][p])]]]]

----------------------------------------------------------------------------
\* seqeval.metrics.sequence_labeling.get_entities

\* chunk[0]
TagOf(label) ==
    CASE label = "O" -> "O"
      [] label \in {"B-LOC", "B-PER"} -> "B"
      [] label \in {"I-LOC", "I-PER"} -> "I"
      [] label = "E-LOC" -> "E"
      [] label = "S-LOC" -> "S"

\* chunk.split('-')[-1]
TypeOf(label) ==
    CASE label = "O" -> "O"
      [] label \in {"B-LOC", "I-LOC", "E-LOC", "S-LOC"} -> "LOC"
      [] label \in {"B-PER", "I-PER"} -> "PER"

end_of_chunk(prev_tag, tg, prev_type, type_) ==
    \/ prev_tag = "E"
    \/ prev_tag = "S"
    \/ prev_tag = "B" /\ tg = "B"
    \/ prev_tag = "B" /\ tg = "S"
    \/ prev_tag = "B" /\ tg = "O"
    \/ prev_tag = "I" /\ tg = "B"
    \/ prev_tag = "I" /\ tg = "S"
    \/ prev_tag = "I" /\ tg = "O"
    \/ prev_tag # "O" /\ prev_tag # "." /\ prev_type # type_

start_of_chunk(prev_tag, tg, prev_type, type_) ==
    \/ tg = "B"
    \/ tg = "S"
    \/ prev_tag = "E" /\ tg = "E"
    \/ prev_tag = "E" /\ tg = "I"
    \/ prev_tag = "S" /\ tg = "E"
    \/ prev_tag = "S" /\ tg = "I"
    \/ prev_tag = "O" /\ tg = "E"
    \/ prev_tag = "O" /\ tg = "I"
    \/ tg # "O" /\ tg # "." /\ prev_type # type_

\* [item for sublist in seq for item in sublist + ['O']]
RECURSIVE Flatten(_)
Flatten(seqs) ==
    IF seqs = <<>> THEN <<>>
    ELSE Head(seqs) \o <<"O">> \o Flatten(Tail(seqs))

\* The loop over enumerate(seq + ['O']); i is the 0-based index.
RECURSIVE ChunkLoop(_, _, _, _, _, _)
ChunkLoop(seq, i, prev_tag, prev_type, begin_offset, chunks) ==
    IF i >= Len(seq) THEN chunks
    ELSE LET chunk == seq[i + 1]
             tg == TagOf(chunk)
             type_ == TypeOf(chunk)
             chunks2 == IF end_of_chunk(prev_tag, tg, prev_type, type_)
                        THEN Append(chunks, <<prev_type, begin_offset, i - 1>>)
                        ELSE chunks
             begin2 == IF start_of_chunk(prev_tag, tg, prev_type, type_)
                       THEN i
                       ELSE begin_offset
         IN ChunkLoop(seq, i + 1, tg, type_, begin2, chunks2)

\* get_entities(seq): seq is [nested, items]; a list holding lists is
\* flattened first.
get_entities(seq) ==
    LET flat == IF seq.nested /\ Len(seq.items) > 0
                THEN Flatten(seq.items)
                ELSE seq.items
    IN ChunkLoop(flat \o <<"O">>, 0, "O", "", 0, <<>>)

----------------------------------------------------------------------------
\* NERPredictor

\* s[a:b] for 0 <= a
PySlice(s, a, b) == SubSeq(s, a + 1, Min(b, Len(s)))

RECURSIVE SumSeq(_)
SumSeq(s) == IF s = <<>> THEN 0 ELSE Head(s) + SumSeq(Tail(s))

\* float(np.average(m)): the mean over every element of the rows m.
Average(m) ==
    [num |-> SumSeq([i \in 1..Len(m) |-> SumSeq(m[i])]),
     den |-> SumSeq([i \in 1..Len(m) |-> Len(m[i])])]

\* list(text)
ToList(text) == [kind |-> "list", chars |-> text.chars]

Ok(v, lens) == [err |-> "none", val |-> v, lengths |-> lens]

Raise(e, lens) == [err |-> e, val |-> <<>>, lengths |-> lens]

predict_prob(model, text) ==
    IF text.kind = "list"
    THEN Ok(predict(model, prepare_input(<<text>>).val)[1], <<>>)
    ELSE IF text.kind # "str"
    THEN Raise("AssertionError", <<>>)
    ELSE Ok(predict(model, prepare_input(<<ToList(text)>>).val)[1], <<>>)

predict_prob_batch(model, txts) ==
    IF Len(txts) = 0 THEN Raise("IndexError", <<>>)
    ELSE IF txts[1].kind = "list"
    THEN LET prepared == prepare_input(txts)
         IN IF prepared.err # "none" THEN Raise(prepared.err, <<>>)
            ELSE Ok(predict(model, prepared.val), <<>>)
    ELSE IF txts[1].kind # "str"
    THEN Raise("AssertionError", <<>>)
    ELSE IF \E i \in 1..Len(txts) : txts[i].kind = "int"
    THEN Raise("TypeError", <<>>)
    ELSE Ok(predict(model,
                    prepare_input([i \in 1..Len(txts) |-> ToList(txts[i])]).val),
            <<>>)

\* [min(len(text), pred_prob.shape[0]) for text, pred_prob in zip(...)]
AlignedLengths(txts, pred_probs) ==
    [i \in 1..Min(Len(txts), Len(pred_probs)) |->
        Min(Len(txts[i].chars), Len(pred_probs[i]))]

\* tag with the length taken from the matrix alone.
tag_rowlen(model, text) ==
    LET pp == predict_prob(model, text)
    IN IF pp.err # "none" THEN pp
       ELSE LET length == Len(pp.val)
                tags == label_decode(<<pp.val>>, <<length>>)
            IN IF tags.err # "none" THEN Raise(tags.err, <<length>>)
               ELSE Ok(tags.val[1], <<length>>)

\* tag returning the whole batch-of-one result of label_decode.
tag_whole(model, text) ==
    LET pp == predict_prob(model, text)
    IN IF pp.err # "none" THEN pp
       ELSE LET length == Min(Len(text.chars), Len(pp.val))
                tags == label_decode(<<pp.val>>, <<length>>)
            IN IF tags.err # "none" THEN Raise(tags.err, <<length>>)
               ELSE Ok(tags.val, <<length>>)

tag(model, text) ==
    LET pp == predict_prob(model, text)
    IN IF pp.err # "none" THEN pp
       ELSE LET length == Min(Len(text.chars), Len(pp.val))
                tags == label_decode(<<pp.val>>, <<length>>)
            IN IF tags.err # "none" THEN Raise(tags.err, <<length>>)
               ELSE Ok(tags.val[1], <<length>>)

\* tag_batch with the lengths taken from the texts alone.
tag_batch_textlen(model, txts) ==
    LET pp == predict_prob_batch(model, txts)
    IN IF pp.err # "none" THEN pp
       ELSE LET lens == [i \in 1..Len(txts) |-> Len(txts[i].chars)]
                tags == label_decode(pp.val, lens)
            IN IF tags.err # "none" THEN Raise(tags.err, lens)
               ELSE Ok(tags.val, lens)

tag_batch(model, txts) ==
    LET pp == predict_prob_batch(model, txts)
    IN IF pp.err # "none" THEN pp
       ELSE LET lens == AlignedLengths(txts, pp.val)
                tags == label_decode(pp.val, lens)
            IN IF tags.err # "none" THEN Raise(tags.err, lens)
               ELSE Ok(tags.val, lens)

\* entities without the step from seqeval's inclusive end to an exclusive one.
entities_noinc(text, tg, pred_prob) ==
    LET chunks == get_entities(tg)
    IN [k \in 1..Len(chunks) |->
          LET chunk_type == chunks[k][1]
              chunk_start == chunks[k][2]
              chunk_end == chunks[k][3]
          IN [text |-> PySlice(text, chunk_start, chunk_end),
              type |-> chunk_type,
              score |-> Average(PySlice(pred_prob, chunk_start, chunk_end)),
              beginOffset |-> chunk_start,
              endOffset |-> chunk_end]]

\* entities reporting 1-based offsets.
entities_shifted(text, tg, pred_prob) ==
    LET chunks == get_entities(tg)
    IN [k \in 1..Len(chunks) |->
          LET chunk_type == chunks[k][1]
              chunk_start == chunks[k][2]
              chunk_end == chunks[k][3] + 1
          IN [text |-> PySlice(text, chunk_start, chunk_end),
              type |-> chunk_type,
              score |-> Average(PySlice(pred_prob, chunk_start, chunk_end)),
              beginOffset |-> chunk_start + 1,
              endOffset |-> chunk_end + 1]]

\* entities slicing the text up to seqeval's inclusive end.
entities_textcut(text, tg, pred_prob) ==
    LET chunks == get_entities(tg)
    IN [k \in 1..Len(chunks) |->
          LET chunk_type == chunks[k][1]
              chunk_start == chunks[k][2]
              chunk_end == chunks[k][3] + 1
          IN [text |-> PySlice(text, chunk_start, chunk_end - 1),
              type |-> chunk_type,
              score |-> Average(PySlice(pred_prob, chunk_start, chunk_end)),
              beginOffset |-> chunk_start,
              endOffset |-> chunk_end]]

\* entities(text, tag, pred_prob): text is the character list, tg the
\* [nested, items] list handed to get_entities.
entities(text, tg, pred_prob) ==
    LET chunks == get_entities(tg)
    IN [k \in 1..Len(chunks) |->
          LET chunk_type == chunks[k][1]
              chunk_start == chunks[k][2]
              chunk_end == chunks[k][3] + 1
          IN [text |-> PySlice(text, chunk_start, chunk_end),
              type |-> chunk_type,
              score |-> Average(PySlice(pred_prob, chunk_start, chunk_end)),
              beginOffset |-> chunk_start,
              endOffset |-> chunk_end]]

\* pretty_tag with the length taken from the matrix alone.
pretty_tag_rowlen(model, text) ==
    LET pp == predict_prob(model, text)
    IN IF pp.err # "none" THEN pp
       ELSE LET length == Len(pp.val)
                tg == label_decode(<<pp.val>>, <<length>>)
            IN IF tg.err # "none" THEN Raise(tg.err, <<length>>)
               ELSE Ok([chars |-> text.chars,
                        entities |-> entities(text.chars,
                                              [nested |-> TRUE, items |-> tg.val],
                                              pp.val)],
                       <<length>>)

pretty_tag(model, text) ==
    LET pp == predict_prob(model, text)
    IN IF pp.err # "none" THEN pp
       ELSE LET length == Min(Len(text.chars), Len(pp.val))
                tg == label_decode(<<pp.val>>, <<length>>)
            IN IF tg.err # "none" THEN Raise(tg.err, <<length>>)
               ELSE Ok([chars |-> text.chars,
                        entities |-> entities(text.chars,
                                              [nested |-> TRUE, items |-> tg.val],
                                              pp.val)],
                       <<length>>)

\* pretty_tag_batch with the lengths taken from the matrices alone.
pretty_tag_batch_rowlen(model, txts) ==
    LET pp == predict_prob_batch(model, txts)
    IN IF pp.err # "none" THEN pp
       ELSE LET lens == [i \in 1..Len(pp.val) |-> Len(pp.val[i])]
                tags == label_decode(pp.val, lens)
            IN IF tags.err # "none" THEN Raise(tags.err, lens)
               ELSE Ok([i \in 1..Min(Len(txts), Len(tags.val)) |->
                          [chars |-> txts[i].chars,
                           entities |-> entities(txts[i].chars,
                                                 [nested |-> FALSE,
                                                  items |-> tags.val[i]],
                                                 pp.val[i])]],
                       lens)

pretty_tag_batch(model, txts) ==
    LET pp == predict_prob_batch(model, txts)
    IN IF pp.err # "none" THEN pp
       ELSE LET lens == AlignedLengths(txts, pp.val)
                tags == label_decode(pp.val, lens)
            IN IF tags.err # "none" THEN Raise(tags.err, lens)
               ELSE Ok([i \in 1..Min(Len(txts), Len(tags.val)) |->
                          [chars |-> txts[i].chars,
                           entities |-> entities(txts[i].chars,
                                                 [nested |-> FALSE,
                                                  items |-> tags.val[i]],
                                                 pp.val[i])]],
                       lens)

----------------------------------------------------------------------------
\* The state machine: a call is drawn (its arguments and the model it
\* runs against), then one entry point is applied to it.

Models == SeqsUpTo({Row(c) : c \in 1..NumClasses}, MaxRows)

Item(kind, n) == [kind |-> kind, chars |-> Chars(n)]

Returned(r, name, i) ==
    /\ op = "call"
    /\ op' = name
    /\ arg' = i
    /\ err' = r.err
    /\ lengths' = r.lengths
    /\ result' = r.val
    /\ UNCHANGED <<texts, ner_model, tag_in>>

PredictProb ==
    \E i \in 1..Len(texts) :
        Returned(predict_prob(ner_model, texts[i]), "predict_prob", i)

PredictProbBatch ==
    Returned(predict_prob_batch(ner_model, texts), "predict_prob_batch", 0)

Tag ==
    \E i \in 1..Len(texts) : Returned(tag(ner_model, texts[i]), "tag", i)

TagBatch == Returned(tag_batch(ner_model, texts), "tag_batch", 0)

PrettyTag ==
    \E i \in 1..Len(texts) :
        Returned(pretty_tag(ner_model, texts[i]), "pretty_tag", i)

PrettyTagBatch ==
    Returned(pretty_tag_batch(ner_model, texts), "pretty_tag_batch", 0)

\* A direct call of the static method, on a flat tag sequence.
Entities ==
    Returned(Ok(entities(texts[1].chars, [nested |-> FALSE, items |-> tag_in],
                         ner_model), <<>>),
             "entities", 1)

\* The call pretty_tag makes: the batch-of-one list of tag sequences.
EntitiesNested ==
    Returned(Ok(entities(texts[1].chars, [nested |-> TRUE, items |-> <<tag_in>>],
                         ner_model), <<>>),
             "entities_nested", 1)

Idle ==
    /\ op = "call"
    /\ err = "none"
    /\ lengths = <<>>
    /\ result = <<>>
    /\ arg = 0

\* Batches of strings, or of character lists.
Init ==
    /\ \E kind \in {"str", "list"} :
         texts \in SeqsUpTo({Item(kind, n) : n \in 0..MaxLen}, MaxBatch)
    /\ ner_model \in Models
    /\ tag_in = <<>>
    /\ Idle

\* Batches whose items are of any type, against a model that tags nothing.
InitTypes ==
    /\ texts \in SeqsUpTo({Item(kind, n) : kind \in {"str", "list", "tuple", "int"},
                                          n \in 0..MaxLen}, MaxBatch)
    /\ ner_model = [p \in 1..MaxRows |-> Row(1)]
    /\ tag_in = <<>>
    /\ Idle

\* Direct calls of entities() on any tag sequence, with one character and
\* one row of probabilities per tag.
InitEntities ==
    /\ tag_in \in SeqsUpTo(Range(Vocab), MaxTagLen)
    /\ texts = <<Item("list", Len(tag_in))>>
    /\ ner_model = [p \in 1..Len(tag_in) |->
                      Row(CHOOSE c \in 1..NumClasses : Vocab[c] = tag_in[p])]
    /\ Idle

Next ==
    \/ PredictProb
    \/ PredictProbBatch
    \/ Tag
    \/ TagBatch
    \/ PrettyTag
    \/ PrettyTagBatch

NextEntities ==
    \/ Entities
    \/ EntitiesNested

Spec == Init /\ [][Next]_vars

SpecTypes == InitTypes /\ [][Next]_vars

SpecEntities == InitEntities /\ [][NextEntities]_vars


----------------------------------------------------------------------------
\* Properties

Valid(text) == text.kind \in {"str", "list"}

\* The rows of the probability matrix the model returns for a text.
RowsOf(text) == Len(predict_prob(ner_model, text).val)

Usable(text) == Min(Len(text.chars), RowsOf(text))

\* The entity records a pretty call returned, item by item.
PrettyRecords ==
    IF op = "pretty_tag" /\ err = "none" THEN <<[item |-> texts[arg], rec |-> result]>>
    ELSE IF op = "pretty_tag_batch" /\ err = "none"
    THEN [i \in 1..Len(result) |-> [item |-> texts[i], rec |-> result[i]]]
    ELSE <<>>

\* C1: tag(t) and every item of tag_batch(texts) hold exactly
\* min(len(text), rows of the text's matrix) labels, and no length handed
\* to label_decode exceeds the row count of its matrix.
C1_TagLengthIsMin ==
    /\ op = "tag" =>
          /\ err = "none"
          /\ lengths = <<Usable(texts[arg])>>
          /\ lengths[1] <= RowsOf(texts[arg])
          /\ Len(result) = Usable(texts[arg])
    /\ (op = "tag_batch" /\ Len(texts) > 0) =>
          /\ err = "none"
          /\ Len(result) = Len(texts)
          /\ Len(lengths) = Len(texts)
          /\ \A i \in 1..Len(texts) :
                /\ lengths[i] <= RowsOf(texts[i])
                /\ Len(result[i]) = Usable(texts[i])

\* A batch with one text longer than its matrix and one shorter.
C1_Witness ==
    /\ op = "tag_batch"
    /\ err = "none"
    /\ \E i, j \in 1..Len(texts) :
          /\ Len(texts[i].chars) > RowsOf(texts[i])
          /\ Len(result[i]) = RowsOf(texts[i])
          /\ Len(texts[j].chars) < RowsOf(texts[j])
          /\ Len(result[j]) = Len(texts[j].chars)
          /\ Len(result[j]) > 0

\* The class index of a label.
ClassOf(label) == CHOOSE c \in 1..NumClasses : Vocab[c] = label

\* The mean, over the positions [b, e) of a text, of the confidence of the
\* label assigned at each position.
ChosenMean(text, b, e) ==
    LET probs == predict_prob(ner_model, text).val
        labels == tag(ner_model, text).val
    IN [num |-> SumSeq([k \in 1..(e - b) |-> probs[b + k][ClassOf(labels[b + k])]]),
        den |-> e - b]

SameFloat(x, y) ==
    /\ (x.den = 0) = (y.den = 0)
    /\ x.num * y.den = y.num * x.den

\* C2: the score of every entity is the mean of the confidences of the
\* labels assigned at its positions (one value per row).
C2_ScoreIsMeanOfChosen ==
    \A r \in Range(PrettyRecords) :
        \A e \in Range(r.rec.entities) :
            SameFloat(e.score, ChosenMean(r.item, e.beginOffset, e.endOffset))

\* C3: tag_batch([t])[0] equals tag(t).
C3_BatchOfOneEqualsSingle ==
    /\ op = "tag" =>
          LET b == tag_batch(ner_model, <<texts[arg]>>)
          IN /\ b.err = err
             /\ err = "none" => b.val[1] = result
    /\ (op = "tag_batch" /\ Len(texts) = 1) =>
          LET s == tag(ner_model, texts[1])
          IN /\ s.err = err
             /\ err = "none" => result[1] = s.val

\* tag returned an entity-bearing sequence for a text padded by the model.
C3_Witness ==
    /\ op = "tag"
    /\ err = "none"
    /\ Len(result) > 0
    /\ Len(result) < RowsOf(texts[arg])
    /\ \E p \in 1..Len(result) : result[p] # "O"
    /\ tag_batch(ner_model, <<texts[arg]>>).val = <<result>>

\* C4: a call aborts with an error whenever an item of the batch (at any
\* index), or the single text, is neither a string nor a list.
C4_InvalidItemAborts ==
    /\ (op \in {"predict_prob_batch", "tag_batch", "pretty_tag_batch"}
          /\ \E i \in 1..Len(texts) : ~Valid(texts[i]))
       => err # "none"
    /\ (op \in {"predict_prob", "tag", "pretty_tag"} /\ ~Valid(texts[arg]))
       => err # "none"

\* C5: every entity of a pretty record lies within the usable length of
\* its text: 0 <= beginOffset < endOffset <= min(len(text), rows).
C5_EntitiesWithinText ==
    \A r \in Range(PrettyRecords) :
        \A e \in Range(r.rec.entities) :
            /\ 0 <= e.beginOffset
            /\ e.beginOffset < e.endOffset
            /\ e.endOffset <= Usable(r.item)
            /\ e.endOffset <= Len(r.item.chars)

\* A batch record with entities whose matrix is padded with a row that
\* favours an entity label, and one whose matrix is shorter than its text.
C5_Witness ==
    /\ op = "pretty_tag_batch"
    /\ err = "none"
    /\ \E i, j \in 1..Len(texts) :
          /\ Len(texts[i].chars) < Len(ner_model)
          /\ Vocab[Argmax(ner_model[Len(texts[i].chars) + 1])] # "O"
          /\ Len(result[i].entities) > 0
          /\ Len(texts[j].chars) > Len(ner_model)
          /\ Len(result[j].entities) > 0

\* The entity list a direct call of entities() returned.
Extracted == IF op \in {"entities", "entities_nested"} THEN result ELSE <<>>

\* C6: for every label sequence, chunk extraction as used by entities()
\* completes and its chunks are of length >= 1, ordered by strictly
\* increasing start and pairwise non-overlapping.
C6_ChunksWellFormed ==
    /\ op \in {"entities", "entities_nested"} => err = "none"
    /\ \A k \in 1..Len(Extracted) :
          /\ 0 <= Extracted[k].beginOffset
          /\ Extracted[k].beginOffset < Extracted[k].endOffset
    /\ \A k \in 1..(Len(Extracted) - 1) :
          /\ Extracted[k].beginOffset < Extracted[k + 1].beginOffset
          /\ Extracted[k].endOffset <= Extracted[k + 1].beginOffset

\* The malformed sequence [I-PER, O, B-LOC] yields PER (0, 1), LOC (2, 3).
C6_Witness ==
    /\ op = "entities"
    /\ tag_in = <<"I-PER", "O", "B-LOC">>
    /\ Len(result) = 2
    /\ result[1].type = "PER" /\ result[1].beginOffset = 0 /\ result[1].endOffset = 1
    /\ result[2].type = "LOC" /\ result[2].beginOffset = 2 /\ result[2].endOffset = 3

\* C7: every position of an extracted chunk carries a non-outside label of
\* the chunk's type.
C7_ChunkTypeConsistent ==
    \A k \in 1..Len(Extracted) :
        /\ Extracted[k].endOffset <= Len(tag_in)
        /\ \A p \in Extracted[k].beginOffset..(Extracted[k].endOffset - 1) :
              /\ tag_in[p + 1] # "O"
              /\ TypeOf(tag_in[p + 1]) = Extracted[k].type

\* Adjacent labels of different types: two chunks, one of them longer than
\* one position.
C7_Witness ==
    /\ op = "entities"
    /\ tag_in = <<"B-LOC", "I-LOC", "I-PER", "O">>
    /\ Len(result) = 2
    /\ result[1].type = "LOC" /\ result[1].endOffset = 2
    /\ result[2].type = "PER" /\ result[2].beginOffset = 2

\* C8: for the empty text tag returns no labels and the pretty calls a
\* record with no entities, whatever the rows of the model, without error.
C8_EmptyText ==
    /\ (op = "tag" /\ texts[arg].chars = <<>>) =>
          err = "none" /\ result = <<>>
    /\ (op = "pretty_tag" /\ texts[arg].chars = <<>>) =>
          err = "none" /\ result.chars = <<>> /\ result.entities = <<>>
    /\ (op = "pretty_tag_batch" /\ Len(texts) > 0) =>
          /\ err = "none"
          /\ \A i \in 1..Len(texts) :
                texts[i].chars = <<>> =>
                    result[i].chars = <<>> /\ result[i].entities = <<>>

\* tag of the empty text against a model whose first row favours an
\* entity label.
C8_Witness ==
    /\ op = "tag"
    /\ texts[arg].chars = <<>>
    /\ Len(ner_model) > 0
    /\ Vocab[Argmax(ner_model[1])] # "O"
    /\ result = <<>>

\* C9: every B-<type> position is the beginOffset of exactly one entity of
\* that type, every entity ends after its last matching position, its text
\* is the characters of [beginOffset, endOffset), and
\* [B-LOC, I-LOC, B-LOC, I-LOC, I-LOC] gives LOC (0, 2) and LOC (2, 5).
C9_BeginOpensEntity ==
    op \in {"entities", "entities_nested"} =>
        /\ \A p \in 1..Len(tag_in) :
              TagOf(tag_in[p]) = "B" =>
                  Cardinality({k \in 1..Len(result) :
                                  /\ result[k].beginOffset = p - 1
                                  /\ result[k].type = TypeOf(tag_in[p])}) = 1
        /\ \A k \in 1..Len(result) :
              LET b == result[k].beginOffset
                  e == result[k].endOffset
              IN /\ e >= 1 /\ e <= Len(tag_in)
                 /\ TypeOf(tag_in[e]) = result[k].type
                 /\ e < Len(tag_in) =>
                       ~ /\ TagOf(tag_in[e + 1]) = "I"
                         /\ TypeOf(tag_in[e + 1]) = result[k].type
                         /\ TagOf(tag_in[e]) \in {"B", "I"}
                 /\ result[k].text = SubSeq(texts[1].chars, b + 1, e)
        /\ tag_in = <<"B-LOC", "I-LOC", "B-LOC", "I-LOC", "I-LOC">> =>
              /\ Len(result) = 2
              /\ result[1].type = "LOC" /\ result[2].type = "LOC"
              /\ result[1].beginOffset = 0 /\ result[1].endOffset = 2
              /\ result[2].beginOffset = 2 /\ result[2].endOffset = 5
              /\ result[1].text = <<"a", "b">>
              /\ result[2].text = <<"c", "d", "e">>

C9_Witness ==
    /\ op = "entities"
    /\ tag_in = <<"B-LOC", "I-LOC", "B-LOC", "I-LOC", "I-LOC">>
    /\ Len(result) = 2
    /\ result[2].beginOffset = 2
    /\ result[2].text = <<"c", "d", "e">>

\* The fields of an entity the two pretty calls are compared on.
Shown(ents) ==
    [k \in 1..Len(ents) |->
        [type |-> ents[k].type, text |-> ents[k].text,
         beginOffset |-> ents[k].beginOffset, endOffset |-> ents[k].endOffset]]

\* C10: pretty_tag(t) equals pretty_tag_batch([t])[0]: the same chars and
\* the same entities in the same order.
C10_PrettyBatchOfOneEqualsSingle ==
    /\ op = "pretty_tag" =>
          LET b == pretty_tag_batch(ner_model, <<texts[arg]>>)
          IN /\ b.err = err
             /\ err = "none" =>
                   /\ b.val[1].chars = result.chars
                   /\ Shown(b.val[1].entities) = Shown(result.entities)
    /\ (op = "pretty_tag_batch" /\ Len(texts) = 1) =>
          LET s == pretty_tag(ner_model, texts[1])
          IN /\ s.err = err
             /\ err = "none" =>
                   /\ result[1].chars = s.val.chars
                   /\ Shown(result[1].entities) = Shown(s.val.entities)

\* pretty_tag returned an entity for a text shorter than its matrix.
C10_Witness ==
    /\ op = "pretty_tag"
    /\ err = "none"
    /\ Len(result.entities) = 1
    /\ Len(result.chars) < Len(ner_model)
    /\ Vocab[Argmax(ner_model[Len(result.chars) + 1])] # "O"
====
